---- MODULE Spec2Model ----
(***************************************************************************)
(* A model of the memory-manager crate: the POSIX and Windows allocation   *)
(* primitives, MemoryChunk, the MegaBlockList iterators and the            *)
(* BlockDescriptor object walk.  Addresses are byte addresses; the machine *)
(* is scaled down (small words, small pages, a small address space).       *)
(***************************************************************************)
EXTENDS Integers, Naturals, Sequences, FiniteSets, TLC

(***************************************************************************)
(* Bounds of the model.                                                    *)
(***************************************************************************)
\* number of pages of the modelled address space (page 0 is never mapped)
NumPages == 4
\* largest `size` argument passed to a primitive
MaxSize == 4
\* largest `alignment` argument passed to aligned_allocate_chunk
MaxAlign == 4
\* number of get_page_size / get_minimum_alignment calls followed
MaxCalls == 4
\* number of MemoryChunk::new calls in a run
MaxChunks == 2
\* number of MegaBlock nodes on the heap
MaxNodes == 3
\* number of objects laid out in a block
MaxObjs == 2
\* largest unpacked_field_count / pointer_count of a descriptor
MaxField == 3
\* BLOCK_WORDS: the words of a block
BlockWords == 8
\* width of usize in bits
WordBits == 6
\* width of c_int / u32 / DWORD in bits
CodeBits == 8

(***************************************************************************)
(* Platform values.                                                        *)
(***************************************************************************)
\* sysconf(_SC_PAGESIZE), in bytes
PageSize == 2
\* libc errno values
EPERM == 1
EAGAIN == 11
ENOMEM == 12
EINVAL == 22
EOVERFLOW == 75
\* winerror values
ERROR_SUCCESS == 0
ERROR_INVALID_PARAMETER == 87
\* libc::MAP_FAILED, (void *) -1
MAP_FAILED == -1
\* size_of::<usize>() and align_of::<usize>(), in bytes
WordBytes == 2
\* the address of the block walked
BlockStart == WordBytes * 4

VARIABLES
    backend,        \* "unix" or "windows": the cfg-selected `detail` module
    overflowChecks, \* TRUE for a build with overflow checks (debug profile)
    mapped,         \* the OS state: the set of mapped page numbers
    PAGE_SIZE,      \* static mut PAGE_SIZE: 0 is None, n > 0 is Some(n)
    call,           \* the last call made, its arguments, system calls and result
    history,        \* the results of the get_page_size calls made so far
    chunks,         \* what became of each MemoryChunk::new call so far, in call order
    list,           \* a MegaBlockList: its head pointer and the nodes' next pointers
    cursor,         \* a MegaBlockIterator(Mut) over `list`
    block,          \* a BlockDescriptor and the objects laid out in its block
    objIter,        \* an ObjectIterator over `block`
    yielded         \* what the iterator under way has returned in Some(..) so far

vars == <<backend, overflowChecks, mapped, PAGE_SIZE, call, history, chunks,
          list, cursor, block, objIter, yielded>>

\* the state of the allocation layer / of the heap walks
allocVars == <<backend, overflowChecks, mapped, PAGE_SIZE, call, history, chunks>>
walkVars == <<list, cursor, block, objIter, yielded>>

(***************************************************************************)
(* Results, errors and machine arithmetic.                                 *)
(***************************************************************************)
Ok(v) == [tag |-> "Ok", val |-> v]
Err(e) == [tag |-> "Err", err |-> e]
Panic == [tag |-> "Panic"]

InvalidArguments == [kind |-> "InvalidArguments", code |-> 0]
TryAgain == [kind |-> "TryAgain", code |-> 0]
NoMemory == [kind |-> "NoMemory", code |-> 0]
LengthOverflow == [kind |-> "LengthOverflow", code |-> 0]
NoError == [kind |-> "NoError", code |-> 0]
UnknownError(c) == [kind |-> "UnknownError", code |-> c]

WordMod == 2 ^ WordBits
CodeMod == 2 ^ CodeBits

\* `e as u32` for a c_int e: the same bits read as unsigned
AsU32(e) == e % CodeMod

RECURSIVE BitAnd(_, _)
BitAnd(a, b) ==
    IF a = 0 \/ b = 0 THEN 0
    ELSE (a % 2) * (b % 2) + 2 * BitAnd(a \div 2, b \div 2)

(***************************************************************************)
(* The operating system: pages, mmap, munmap, sysconf.                     *)
(* A world is [mapped, errno, sys]: the mapped pages, the thread's errno   *)
(* and the system calls made so far by the running call.                   *)
(***************************************************************************)
Pages == 1 .. NumPages
PageOf(a) == a \div PageSize
\* the pages holding a byte of [addr, addr + len)
PagesOf(addr, len) == {p \in 0 .. NumPages + 1 : p * PageSize < addr + len /\ (p + 1) * PageSize > addr}
\* the bytes of [addr, addr + len)
Bytes(addr, len) == {b \in 0 .. (NumPages + 2) * PageSize : addr <= b /\ b < addr + len}
\* a byte is mapped when its page is
IsMapped(m, b) == PageOf(b) \in m

\* the codes a failing mmap / munmap sets here
MmapErrnos == {EAGAIN, ENOMEM, EPERM}
MunmapErrnos == {EINVAL}
\* sysconf returns -1 and leaves errno alone for an unsupported name
SysconfErrnos == {0, EINVAL}
\* errno as a call finds it: whatever an earlier library call left there
StaleErrnos == {0, ENOMEM}

World(m, e) == [mapped |-> m, errno |-> e, sys |-> << >>]

set_errno(w, e) == [w EXCEPT !.errno = e]

Logged(w, entry) == [w EXCEPT !.sys = Append(@, entry)]

\* mmap(NULL, len, prot, MAP_PRIVATE | MAP_ANONYMOUS, -1, 0)
wrapped_mmap(w, len, prot) ==
    LET fail(e) == [w |-> Logged(set_errno(w, e),
                                 [name |-> "mmap", addr |-> MAP_FAILED, len |-> len]),
                    ret |-> MAP_FAILED]
        free(p) == PagesOf(p * PageSize, len) \subseteq (Pages \ w.mapped)
    IN  IF len = 0 THEN {fail(EINVAL)}
        ELSE {fail(e) : e \in MmapErrnos}
             \cup {[w |-> Logged([w EXCEPT !.mapped = @ \cup PagesOf(p * PageSize, len)],
                                 [name |-> "mmap", addr |-> p * PageSize, len |-> len]),
                    ret |-> p * PageSize] : p \in {q \in Pages : free(q)}}

\* munmap(addr, len): every page holding a part of the range is unmapped
munmap(w, addr, len) ==
    LET entry(r) == [name |-> "munmap", addr |-> addr, len |-> len, ret |-> r]
        fail(e) == [w |-> Logged(set_errno(w, e), entry(-1)), ret |-> -1]
    IN  IF addr % PageSize # 0 \/ len = 0 THEN {fail(EINVAL)}
        ELSE {fail(e) : e \in MunmapErrnos}
             \cup {[w |-> Logged([w EXCEPT !.mapped = @ \ PagesOf(addr, len)], entry(0)),
                    ret |-> 0]}

\* sysconf(_SC_PAGESIZE)
sysconf(w) ==
    {[w |-> Logged(IF e = 0 THEN w ELSE set_errno(w, e),
                   [name |-> "sysconf", ret |-> -1]), ret |-> -1] : e \in SysconfErrnos}
    \cup {[w |-> Logged(w, [name |-> "sysconf", ret |-> PageSize]), ret |-> PageSize]}

(***************************************************************************)
(* primitives/unix.rs                                                      *)
(***************************************************************************)
\* a translation that folds the unrecognised codes into NoMemory
from_errno_folded(e) ==
    CASE e = EINVAL -> InvalidArguments
      [] e = EAGAIN -> TryAgain
      [] e = ENOMEM -> NoMemory
      [] e = EOVERFLOW -> LengthOverflow
      [] e = 0 -> NoError
      [] OTHER -> NoMemory

\* MMapError::from_errno
from_errno(e) ==
    CASE e = EINVAL -> InvalidArguments
      [] e = EAGAIN -> TryAgain
      [] e = ENOMEM -> NoMemory
      [] e = EOVERFLOW -> LengthOverflow
      [] e = 0 -> NoError
      [] OTHER -> UnknownError(AsU32(e))

MMapError_get(w) == from_errno(w.errno)

\* get_page_size that forgets to fill the cache
get_page_size_uncached(w, cache) ==
    IF cache # 0 THEN {[w |-> w, ret |-> Ok(cache), cache |-> cache]}
    ELSE {IF o.ret < 0
          THEN [w |-> o.w, ret |-> Err(MMapError_get(o.w)), cache |-> cache]
          ELSE [w |-> o.w, ret |-> Ok(o.ret), cache |-> cache]
          : o \in sysconf(set_errno(w, 0))}

\* outcomes are [w |-> world after, ret |-> Ok(_) | Err(_) | Panic, cache |-> PAGE_SIZE after]
get_page_size(w, cache) ==
    IF cache # 0 THEN {[w |-> w, ret |-> Ok(cache), cache |-> cache]}
    ELSE {IF o.ret < 0
          THEN [w |-> o.w, ret |-> Err(MMapError_get(o.w)), cache |-> cache]
          ELSE [w |-> o.w, ret |-> Ok(o.ret), cache |-> o.ret]
          : o \in sysconf(set_errno(w, 0))}

\* allocate_chunk leaving the size for mmap to reject
allocate_chunk_unguarded(w, size, protection) ==
    {[w |-> o.w,
      ret |-> IF o.ret = MAP_FAILED THEN Err(MMapError_get(o.w)) ELSE Ok(o.ret)]
     : o \in wrapped_mmap(set_errno(w, 0), size, protection)}

allocate_chunk(w, size, protection) ==
    IF size = 0 THEN {[w |-> w, ret |-> Err(InvalidArguments)]}
    ELSE {[w |-> o.w,
           ret |-> IF o.ret = MAP_FAILED THEN Err(MMapError_get(o.w)) ELSE Ok(o.ret)]
          : o \in wrapped_mmap(set_errno(w, 0), size, protection)}

deallocate_chunk(w, addr, size) ==
    {[w |-> o.w, ret |-> IF o.ret < 0 THEN Err(MMapError_get(o.w)) ELSE Ok(0)]
     : o \in munmap(set_errno(w, 0), addr, size)}

\* (x - 1) & x == 0; x - 1 overflows for x = 0: a panic with overflow checks,
\* a wrap to the all-ones word without
is_power_of_2(x, checks) ==
    IF x = 0 /\ checks THEN Panic
    ELSE Ok(BitAnd((x - 1) % WordMod, x) = 0)

\* a slip: the padding taken as a whole alignment, whatever the address
front_padding_whole(res, alignment) == alignment

\* back_padding = res & alignment_mask; front_padding = alignment - back_padding
front_padding_of(res, alignment) == alignment - BitAnd(res, alignment - 1)

aligned_allocate_chunk(w, alignment, size, protection, checks) ==
    LET pow == is_power_of_2(alignment, checks)
        sum == size + alignment
    IN  IF pow = Panic \/ pow = Ok(FALSE) THEN {[w |-> w, ret |-> Panic]}
        ELSE IF alignment = 0 THEN {[w |-> w, ret |-> Panic]}
        ELSE IF size % alignment # 0 THEN {[w |-> w, ret |-> Panic]}
        ELSE IF sum >= WordMod /\ checks THEN {[w |-> w, ret |-> Panic]}
        ELSE
          LET alignment_mask == alignment - 1
              trim(o1) ==
                LET res == o1.ret.val
                    back_padding == BitAnd(res, alignment_mask)
                    front_padding == front_padding_of(res, alignment)
                    start_addr == res + front_padding
                    back(o2) ==
                      IF back_padding > 0
                      THEN {IF o3.ret.tag = "Err" THEN o3
                            ELSE [w |-> o3.w, ret |-> Ok(start_addr)]
                            : o3 \in deallocate_chunk(o2.w, start_addr, back_padding)}
                      ELSE {[w |-> o2.w, ret |-> Ok(start_addr)]}
                IN  UNION {IF o2.ret.tag = "Err" THEN {o2} ELSE back(o2)
                           : o2 \in deallocate_chunk(o1.w, res, front_padding)}
          IN  UNION {IF o1.ret.tag = "Err" THEN {o1} ELSE trim(o1)
                     : o1 \in allocate_chunk(w, sum % WordMod, protection)}

(***************************************************************************)
(* The primitives called directly.  A call runs to its return in one step  *)
(* and leaves its record in `call`; the caller then resumes and may call   *)
(* again.  A panic ends the run.                                           *)
(***************************************************************************)
Protections == {{}, {"Read", "Write"}}
Alignments == 0 .. MaxAlign
Sizes == 0 .. MaxSize
Addresses == 0 .. (NumPages + 1) * PageSize

NoCall == [op |-> "none"]

\* no list, block or iterator is in use
NoWalk ==
    /\ list = [head |-> 0, next |-> << >>]
    /\ cursor = [kind |-> "none"]
    /\ block = [start |-> 0, free |-> 0, objs |-> << >>]
    /\ objIter = [state |-> "none"]
    /\ yielded = << >>

InitPrim ==
    /\ backend = "unix"
    /\ overflowChecks \in BOOLEAN
    /\ mapped = {}
    /\ PAGE_SIZE = 0
    /\ call = NoCall
    /\ history = << >>
    /\ chunks = << >>
    /\ NoWalk

Returns(op, args, o) ==
    /\ UNCHANGED walkVars
    /\ mapped' = o.w.mapped
    /\ call' = [op |-> op, args |-> args, sys |-> o.w.sys, ret |-> o.ret]

Resume ==
    /\ call # NoCall
    /\ call.ret.tag # "Panic"
    /\ call' = NoCall
    /\ UNCHANGED walkVars
    /\ UNCHANGED <<backend, overflowChecks, mapped, PAGE_SIZE, history, chunks>>

AllocateChunk ==
    /\ call = NoCall
    /\ \E size \in Sizes, p \in Protections, e0 \in StaleErrnos :
       \E o \in allocate_chunk(World(mapped, e0), size, p) :
          /\ Returns("allocate_chunk", [size |-> size, protection |-> p], o)
          /\ UNCHANGED <<backend, overflowChecks, PAGE_SIZE, history, chunks>>

AlignedAllocateChunk ==
    /\ call = NoCall
    /\ \E alignment \in Alignments, size \in Sizes, p \in Protections, e0 \in StaleErrnos :
       \E o \in aligned_allocate_chunk(World(mapped, e0), alignment, size, p, overflowChecks) :
          /\ Returns("aligned_allocate_chunk",
                     [alignment |-> alignment, size |-> size, protection |-> p], o)
          /\ UNCHANGED <<backend, overflowChecks, PAGE_SIZE, history, chunks>>

DeallocateChunk ==
    /\ call = NoCall
    /\ \E addr \in Addresses, size \in Sizes, e0 \in StaleErrnos :
       \E o \in deallocate_chunk(World(mapped, e0), addr, size) :
          /\ Returns("deallocate_chunk", [addr |-> addr, size |-> size], o)
          /\ UNCHANGED <<backend, overflowChecks, PAGE_SIZE, history, chunks>>

NextPrim == AllocateChunk \/ AlignedAllocateChunk \/ DeallocateChunk \/ Resume

SpecPrim == InitPrim /\ [][NextPrim]_vars

(***************************************************************************)
(* Claims about aligned_allocate_chunk on the POSIX backend.               *)
(***************************************************************************)
AlignedOk ==
    /\ call.op = "aligned_allocate_chunk"
    /\ call.ret.tag = "Ok"

\* the address the OS returned for the over-allocation of the last call
OsAddress == call.sys[1].addr

\* C1: when aligned_allocate_chunk returns Ok(a) for a non-zero size, every
\* byte of [a, a + size) is still mapped.  Stated for the alignments of whole
\* pages, where munmap's rounding of a length up to a page plays no part.
C1_ReturnedRegionMapped ==
    (AlignedOk /\ call.args.size > 0 /\ call.args.alignment % PageSize = 0) =>
        \A b \in Bytes(call.ret.val, call.args.size) : IsMapped(mapped, b)

\* C2: when aligned_allocate_chunk returns Ok(a), no byte of the
\* over-allocated range [res, res + size + alignment) outside [a, a + size)
\* remains mapped.
C2_PaddingReleased ==
    AlignedOk =>
        \A b \in Bytes(OsAddress, call.args.size + call.args.alignment)
                 \ Bytes(call.ret.val, call.args.size) : ~IsMapped(mapped, b)

\* C3: a successful aligned_allocate_chunk(alignment, size, protection)
\* returns an address that is a multiple of alignment, whatever address the
\* OS returned for the underlying mapping.
C3_ResultAligned ==
    AlignedOk => call.ret.val % call.args.alignment = 0

\* a success whose underlying mapping was not aligned
C3_Witness ==
    /\ AlignedOk
    /\ call.args.size > 0
    /\ OsAddress % call.args.alignment # 0

\* C17: allocate_chunk(0, protection) returns Err(InvalidArguments) for
\* every protection, makes no OS call and leaves the live mappings as they
\* were.
C17_ZeroSizeRejected ==
    [][(call'.op = "allocate_chunk" /\ call'.args.size = 0) =>
          /\ call'.ret = Err(InvalidArguments)
          /\ call'.sys = << >>
          /\ mapped' = mapped]_vars

\* allocate_chunk(0, _) has returned while mappings were live
C17_Witness ==
    /\ call.op = "allocate_chunk"
    /\ call.args.size = 0
    /\ call.ret = Err(InvalidArguments)
    /\ mapped # {}

\* the arguments of the last aligned_allocate_chunk call break its
\* precondition: alignment a power of two, size a multiple of it
BadAlignedArguments ==
    /\ call.op = "aligned_allocate_chunk"
    /\ \/ call.args.alignment = 0
       \/ \A k \in 0 .. (WordBits - 1) : call.args.alignment # 2 ^ k
       \/ call.args.size % call.args.alignment # 0

\* C18: a precondition violation of aligned_allocate_chunk comes back to the
\* caller as Err(InvalidArguments), with no mapping created.
C18_PreconditionIsError ==
    BadAlignedArguments =>
        /\ call.ret = Err(InvalidArguments)
        /\ call.sys = << >>

\* C24: aligned_allocate_chunk leaks nothing on failure: whenever it returns
\* Err, the mapped pages are those mapped before the call, and no byte of
\* the range it over-allocated remains mapped.
C24_NoLeakOnFailure ==
    [][(call'.op = "aligned_allocate_chunk" /\ call'.ret.tag = "Err") =>
          /\ mapped' = mapped
          /\ call'.sys[1].addr # MAP_FAILED =>
                \A b \in Bytes(call'.sys[1].addr, call'.args.size + call'.args.alignment) :
                    ~IsMapped(mapped', b)]_vars

(***************************************************************************)
(* The page-size query.                                                    *)
(***************************************************************************)
InitPage ==
    /\ backend = "unix"
    /\ overflowChecks \in BOOLEAN
    /\ mapped = {}
    /\ PAGE_SIZE = 0
    /\ call = NoCall
    /\ history = << >>
    /\ chunks = << >>
    /\ NoWalk

GetPageSize ==
    /\ call = NoCall
    /\ Len(history) < MaxCalls
    /\ \E e0 \in StaleErrnos :
       \E o \in get_page_size(World(mapped, e0), PAGE_SIZE) :
          /\ Returns("get_page_size", [cache |-> PAGE_SIZE], o)
          /\ PAGE_SIZE' = o.cache
          /\ history' = Append(history, o.ret)
          /\ UNCHANGED <<backend, overflowChecks, chunks>>

\* get_minimum_alignment is get_page_size on this backend
GetMinimumAlignment ==
    /\ call = NoCall
    /\ Len(history) < MaxCalls
    /\ \E e0 \in StaleErrnos :
       \E o \in get_page_size(World(mapped, e0), PAGE_SIZE) :
          /\ Returns("get_minimum_alignment", [cache |-> PAGE_SIZE], o)
          /\ PAGE_SIZE' = o.cache
          /\ history' = Append(history, o.ret)
          /\ UNCHANGED <<backend, overflowChecks, chunks>>

NextPage == GetPageSize \/ GetMinimumAlignment \/ Resume

SpecPage == InitPage /\ [][NextPage]_vars

\* C9: whenever a primitive returns Err(e), e is not NoError, also when the
\* failing OS call left the native error code at 0.
C9_NeverNoError ==
    (call # NoCall /\ call.ret.tag = "Err") => call.ret.err # NoError

(***************************************************************************)
(* The page-size cache on both backends.  On Windows the cache is SYS_INFO; *)
(* 0 stands for None on both, and a filled SYS_INFO is written as its      *)
(* dwPageSize, the allocation granularity being twice that.                *)
(***************************************************************************)
\* the SYSTEM_INFO with page size p
SystemInfo(p) == [dwPageSize |-> p, dwAllocationGranularity |-> 2 * p]

\* GetSystemInfo(&mut info): it cannot fail
GetSystemInfo(w) ==
    [w |-> Logged(w, [name |-> "GetSystemInfo"]), info |-> SystemInfo(PageSize)]

\* primitives/windows.rs get_sys_info: [w |-> world after, info, cache |-> SYS_INFO after]
get_sys_info(w, cache) ==
    IF cache # 0 THEN [w |-> w, info |-> SystemInfo(cache), cache |-> cache]
    ELSE LET o == GetSystemInfo(w)
         IN  [w |-> o.w, info |-> o.info, cache |-> o.info.dwPageSize]

\* primitives/windows.rs get_page_size
get_page_size_windows(w, cache) ==
    LET o == get_sys_info(w, cache)
    IN  {[w |-> o.w, ret |-> Ok(o.info.dwPageSize), cache |-> o.cache]}

\* primitives/windows.rs get_minimum_alignment
get_minimum_alignment_windows(w, cache) ==
    LET o == get_sys_info(w, cache)
    IN  {[w |-> o.w, ret |-> Ok(o.info.dwAllocationGranularity), cache |-> o.cache]}

InitCache ==
    /\ backend \in {"unix", "windows"}
    /\ overflowChecks = FALSE
    /\ mapped = {}
    /\ PAGE_SIZE = 0
    /\ call = NoCall
    /\ history = << >>
    /\ chunks = << >>
    /\ NoWalk

GetPageSizeWindows ==
    /\ call = NoCall
    /\ Len(history) < MaxCalls
    /\ \E o \in get_page_size_windows(World(mapped, 0), PAGE_SIZE) :
          /\ Returns("get_page_size", [cache |-> PAGE_SIZE], o)
          /\ PAGE_SIZE' = o.cache
          /\ history' = Append(history, o.ret)
          /\ UNCHANGED <<backend, overflowChecks, chunks>>

GetMinimumAlignmentWindows ==
    /\ call = NoCall
    /\ \E o \in get_minimum_alignment_windows(World(mapped, 0), PAGE_SIZE) :
          /\ Returns("get_minimum_alignment", [cache |-> PAGE_SIZE], o)
          /\ PAGE_SIZE' = o.cache
          /\ UNCHANGED <<backend, overflowChecks, history, chunks>>

NextCache ==
    \/ backend = "unix" /\ GetPageSize
    \/ backend = "unix" /\ GetMinimumAlignment
    \/ backend = "windows" /\ GetPageSizeWindows
    \/ backend = "windows" /\ GetMinimumAlignmentWindows
    \/ Resume

SpecCache == InitCache /\ [][NextCache]_vars

\* the page size the cache holds
CachedPageSize(cache) == IF backend = "unix" THEN cache ELSE SystemInfo(cache).dwPageSize

\* the returns of the get_page_size calls so far that were Ok
Successes == {k \in DOMAIN history : history[k].tag = "Ok"}

\* C19: the cache is empty until the first successful query, is written only
\* by a successful query (a failed call returns Err and leaves it empty) and
\* never changes afterwards; all successful calls return the same value, and
\* a call made with the cache filled does not query the OS.
C19_PageSizeCache ==
    /\ []((PAGE_SIZE = 0) => Successes = {})
    /\ [](\A k \in Successes : PAGE_SIZE # 0 /\ history[k] = Ok(CachedPageSize(PAGE_SIZE)))
    /\ [][/\ PAGE_SIZE # 0 => PAGE_SIZE' = PAGE_SIZE
          /\ (PAGE_SIZE = 0 /\ PAGE_SIZE' # 0) => (call'.ret.tag = "Ok" /\ call'.sys # << >>)
          /\ (call' # NoCall /\ call'.ret.tag = "Err") => (PAGE_SIZE = 0 /\ PAGE_SIZE' = 0)
          /\ (call' # NoCall /\ PAGE_SIZE # 0) => (call'.sys = << >> /\ call'.ret.tag = "Ok")]_vars

\* on the POSIX backend a query failed, a later one succeeded, and a call
\* after that was answered from the cache
C19_Witness ==
    /\ backend = "unix"
    /\ Len(history) >= 3
    /\ history[1].tag = "Err"
    /\ history[Len(history)].tag = "Ok"
    /\ call.op = "get_page_size"
    /\ call.args.cache # 0
    /\ call.sys = << >>

(***************************************************************************)
(* Error translation on both backends.                                     *)
(***************************************************************************)
\* primitives/windows.rs
from_errno_windows(e) ==
    CASE e = ERROR_INVALID_PARAMETER -> InvalidArguments
      [] e = ERROR_SUCCESS -> NoError
      [] OTHER -> UnknownError(e)

\* the values of a c_int (unix) and of a DWORD (windows)
NativeCodes(b) ==
    IF b = "unix" THEN -(CodeMod \div 2) .. (CodeMod \div 2 - 1) ELSE 0 .. (CodeMod - 1)

InitErr ==
    /\ backend \in {"unix", "windows"}
    /\ overflowChecks = FALSE
    /\ mapped = {}
    /\ PAGE_SIZE = 0
    /\ call = NoCall
    /\ history = << >>
    /\ chunks = << >>
    /\ NoWalk

FromErrno ==
    /\ call = NoCall
    /\ \E e \in NativeCodes(backend) :
          call' = [op |-> "from_errno", args |-> [e |-> e],
                   ret |-> Ok(IF backend = "unix" THEN from_errno(e) ELSE from_errno_windows(e))]
    /\ UNCHANGED walkVars
    /\ UNCHANGED <<backend, overflowChecks, mapped, PAGE_SIZE, history, chunks>>

NextErr == FromErrno \/ Resume

SpecErr == InitErr /\ [][NextErr]_vars

Translated == call.op = "from_errno"

\* C10: the native invalid-argument code maps to InvalidArguments on both
\* backends; on POSIX EAGAIN, ENOMEM and EOVERFLOW map to TryAgain, NoMemory
\* and LengthOverflow; every other non-zero code c maps to UnknownError
\* carrying c (for a negative c_int, its bits as a u32).
C10_TranslationExact ==
    Translated =>
        LET e == call.args.e
            r == call.ret.val
            named == IF backend = "unix" THEN {EINVAL, EAGAIN, ENOMEM, EOVERFLOW}
                     ELSE {ERROR_INVALID_PARAMETER}
        IN  /\ (backend = "unix" /\ e = EINVAL) => r = InvalidArguments
            /\ (backend = "windows" /\ e = ERROR_INVALID_PARAMETER) => r = InvalidArguments
            /\ (backend = "unix" /\ e = EAGAIN) => r = TryAgain
            /\ (backend = "unix" /\ e = ENOMEM) => r = NoMemory
            /\ (backend = "unix" /\ e = EOVERFLOW) => r = LengthOverflow
            /\ (e # 0 /\ e \notin named) =>
                  /\ r.kind = "UnknownError"
                  /\ (r.code - e) % CodeMod = 0
                  /\ 0 <= r.code /\ r.code < CodeMod

\* a code the POSIX backend does not name has been translated
C10_Witness ==
    /\ Translated
    /\ call.args.e = ERROR_INVALID_PARAMETER
    /\ backend = "unix"
    /\ call.ret.val = UnknownError(ERROR_INVALID_PARAMETER)

(***************************************************************************)
(* allocate.rs: MemoryChunk.                                               *)
(***************************************************************************)
\* MemoryChunk::new: the chunk holds the address returned and the size asked
MemoryChunk_new(w, alignment, size, protection, checks) ==
    {[w |-> o.w,
      ret |-> IF o.ret.tag = "Ok" THEN Ok([data |-> o.ret.val, size |-> size]) ELSE o.ret]
     : o \in aligned_allocate_chunk(w, alignment, size, protection, checks)}

\* a slip: the error of deallocate_chunk dropped with `.ok()`
MemoryChunk_drop_swallow(w, chunk) ==
    {[w |-> o.w, ret |-> Ok(0)] : o \in deallocate_chunk(w, chunk.data, chunk.size)}

\* Drop for MemoryChunk: deallocate_chunk(data, size).expect(..)
MemoryChunk_drop(w, chunk) ==
    {[w |-> o.w, ret |-> IF o.ret.tag = "Err" THEN Panic ELSE Ok(0)]
     : o \in deallocate_chunk(w, chunk.data, chunk.size)}

\* the releases among the system calls `sys` that concern the region
\* [addr, addr + size): the munmap(addr, size) calls and the munmap calls of
\* a range that shares a byte with the region
Releases(sys, addr, size) ==
    Cardinality({k \in DOMAIN sys :
                   /\ sys[k].name = "munmap"
                   /\ \/ sys[k].addr = addr /\ sys[k].len = size
                      \/ Bytes(sys[k].addr, sys[k].len) \cap Bytes(addr, size) # {}})

\* the chunks after a call that made the system calls `sys`: each live chunk
\* counts the releases of its region
Released(cs, sys) ==
    [i \in DOMAIN cs |->
        IF cs[i].state = "live"
        THEN [cs[i] EXCEPT !.frees = @ + Releases(sys, cs[i].data, cs[i].size)]
        ELSE cs[i]]

\* a chunk that was dropped: the value is gone, what is kept is the number of
\* deallocate_chunk(data, size) calls its drop made
Dropped(n) == [data |-> 0, size |-> 0, state |-> "dropped", frees |-> n]

\* a new() that returned Err or panicked: no chunk exists
NoChunk == [data |-> 0, size |-> 0, state |-> "none", frees |-> 0]

InitChunk ==
    /\ backend = "unix"
    /\ overflowChecks \in BOOLEAN
    /\ mapped = {}
    /\ PAGE_SIZE = 0
    /\ call = NoCall
    /\ history = << >>
    /\ chunks = << >>
    /\ NoWalk

\* let chunk = MemoryChunk::new(alignment, size, protection)
NewChunk ==
    /\ call = NoCall
    /\ Len(chunks) < MaxChunks
    /\ \E alignment \in Alignments, size \in Sizes, p \in Protections, e0 \in StaleErrnos :
       \E o \in MemoryChunk_new(World(mapped, e0), alignment, size, p, overflowChecks) :
          /\ Returns("new", [alignment |-> alignment, size |-> size], o)
          /\ chunks' = Append(Released(chunks, o.w.sys),
                              IF o.ret.tag = "Ok"
                              THEN [data |-> o.ret.val.data, size |-> o.ret.val.size,
                                    state |-> "live", frees |-> 0]
                              ELSE NoChunk)
          /\ UNCHANGED <<backend, overflowChecks, PAGE_SIZE, history>>

\* a live chunk goes out of scope
DropChunk ==
    /\ call = NoCall
    /\ \E i \in DOMAIN chunks :
          /\ chunks[i].state = "live"
          /\ \E e0 \in StaleErrnos :
             \E o \in MemoryChunk_drop(World(mapped, e0), chunks[i]) :
                /\ Returns("drop", [chunk |-> i, data |-> chunks[i].data, size |-> chunks[i].size], o)
                /\ chunks' = [Released(chunks, o.w.sys) EXCEPT
                                ![i] = Dropped(chunks[i].frees
                                               + Releases(o.w.sys, chunks[i].data, chunks[i].size))]
                /\ UNCHANGED <<backend, overflowChecks, PAGE_SIZE, history>>

NextChunk == NewChunk \/ DropChunk \/ Resume

SpecChunk == InitChunk /\ [][NextChunk]_vars

\* a region of whole pages, as a page-multiple alignment and size give
WholePages(addr, size) == size > 0 /\ addr % PageSize = 0 /\ size % PageSize = 0

\* C6: over any sequence of MemoryChunk::new and drop, the region of a chunk
\* whose new() succeeded has been released by no call while the chunk lives
\* and by exactly one call once it is dropped, the one deallocate_chunk(base,
\* size) of that drop; a new() that failed leaves no chunk to drop.  Stated
\* for the chunks of whole pages, where munmap's rounding plays no part.
C6_OneReleasePerChunk ==
    /\ \A i \in DOMAIN chunks :
          (chunks[i].state = "live" /\ WholePages(chunks[i].data, chunks[i].size))
              => chunks[i].frees = 0
    /\ (call.op = "drop" /\ WholePages(call.args.data, call.args.size)) =>
          /\ chunks[call.args.chunk].state = "dropped"
          /\ chunks[call.args.chunk].frees = 1
          /\ Len(call.sys) = 1
    /\ (call.op = "new" /\ call.ret.tag # "Ok") => chunks[Len(chunks)].state = "none"

\* C7: every MemoryChunk that exists has size > 0.
C7_ChunkSizePositive ==
    \A i \in DOMAIN chunks : chunks[i].state = "live" => chunks[i].size > 0

\* the drop of the last call had deallocate_chunk return an error
DropFailed ==
    /\ call.op = "drop"
    /\ \E k \in DOMAIN call.sys : call.sys[k].name = "munmap" /\ call.sys[k].ret < 0

\* C8: if deallocate_chunk returns an error while a MemoryChunk is being
\* dropped, the drop panics.
C8_DropFailureIsFatal ==
    DropFailed => call.ret = Panic

\* the release of a chunk of non-zero size failed
C8_Witness ==
    /\ DropFailed
    /\ call.args.size > 0
    /\ call.ret = Panic

(***************************************************************************)
(* allocate.rs: MegaBlockList and its iterators.  A node is named by its   *)
(* address 1 .. MaxNodes; 0 is the null pointer.                           *)
(***************************************************************************)
Nodes == 1 .. MaxNodes

\* the chains of distinct nodes: the lists without a cycle
Chains ==
    {c \in UNION {[1 .. n -> Nodes] : n \in 0 .. MaxNodes} :
        \A i, j \in DOMAIN c : i # j => c[i] # c[j]}

\* the heap holding chain c: MegaBlockList(head) and each node's `next`
ListOf(c) ==
    [head |-> IF c = << >> THEN 0 ELSE c[1],
     next |-> [n \in Nodes |->
                 IF \E i \in 1 .. Len(c) - 1 : c[i] = n
                 THEN c[(CHOOSE i \in 1 .. Len(c) - 1 : c[i] = n) + 1]
                 ELSE 0]]

\* the nodes reached from node n through `next`, in order
RECURSIVE ChainFrom(_, _, _)
ChainFrom(l, n, fuel) ==
    IF n = 0 \/ fuel = 0 THEN << >>
    ELSE <<n>> \o ChainFrom(l, l.next[n], fuel - 1)

ChainOf(l) == ChainFrom(l, l.head, MaxNodes)

\* MegaBlockIterator::next on an iterator holding `at` (0 is None):
\* self.0.as_mut().and_then(|me| Some(replace(me, me.next.0.as_ref()?)))
MegaBlockIterator_next(l, at) ==
    IF at = 0 THEN [tag |-> "None", at |-> 0]
    ELSE IF l.next[at] = 0 THEN [tag |-> "None", at |-> at]
    ELSE [tag |-> "Some", item |-> at, at |-> l.next[at]]

\* MegaBlockIteratorMut::next: the same with as_mut
MegaBlockIteratorMut_next(l, at) ==
    IF at = 0 THEN [tag |-> "None", at |-> 0]
    ELSE IF l.next[at] = 0 THEN [tag |-> "None", at |-> at]
    ELSE [tag |-> "Some", item |-> at, at |-> l.next[at]]

\* what an iterator of each kind hands out for node n: the node, or with
\* chunks() / chunks_mut() the chunk embedded in it
Node(n) == [node |-> n]
ChunkOf(n) == [chunk |-> n]
ItemOf(kind, n) == IF kind \in {"chunks", "chunks_mut"} THEN ChunkOf(n) ELSE Node(n)

IterKinds == {"iter", "iter_mut", "chunks", "chunks_mut"}

InitList ==
    /\ backend = "unix"
    /\ overflowChecks = FALSE
    /\ mapped = {}
    /\ PAGE_SIZE = 0
    /\ call = NoCall
    /\ history = << >>
    /\ chunks = << >>
    /\ \E c \in Chains : list = ListOf(c)
    /\ cursor = [kind |-> "none"]
    /\ block = [start |-> 0, free |-> 0, objs |-> << >>]
    /\ objIter = [state |-> "none"]
    /\ yielded = << >>

\* list.iter() / iter_mut() / chunks() / chunks_mut()
ListIter ==
    /\ cursor.kind = "none"
    /\ \E k \in IterKinds :
          cursor' = [kind |-> k, at |-> list.head, last |-> "fresh"]
    /\ yielded' = << >>
    /\ UNCHANGED <<list, block, objIter>>
    /\ UNCHANGED allocVars

\* it.next()
ListIterNext ==
    /\ cursor.kind # "none"
    /\ LET r == IF cursor.kind \in {"iter", "chunks"}
                THEN MegaBlockIterator_next(list, cursor.at)
                ELSE MegaBlockIteratorMut_next(list, cursor.at)
       IN  /\ cursor' = [cursor EXCEPT !.at = r.at, !.last = r.tag]
           /\ yielded' = IF r.tag = "Some"
                         THEN Append(yielded, ItemOf(cursor.kind, r.item))
                         ELSE yielded
    /\ UNCHANGED <<list, block, objIter>>
    /\ UNCHANGED allocVars

\* the iterator goes out of scope
ListIterDrop ==
    /\ cursor.kind # "none"
    /\ cursor' = [kind |-> "none"]
    /\ yielded' = << >>
    /\ UNCHANGED <<list, block, objIter>>
    /\ UNCHANGED allocVars

NextList == ListIter \/ ListIterNext \/ ListIterDrop

SpecList == InitList /\ [][NextList]_vars

\* C5: for a list of N chained nodes, an iterator that has returned None has
\* yielded exactly the N nodes (with chunks(): their chunks) in chain order,
\* what it has yielded before is a prefix of them, and on the empty list the
\* first next() returns None.
C5_IterYieldsChain ==
    cursor.kind # "none" =>
        LET all == [i \in 1 .. Len(ChainOf(list)) |-> ItemOf(cursor.kind, ChainOf(list)[i])]
        IN  /\ Len(yielded) <= Len(all)
            /\ \A i \in DOMAIN yielded : yielded[i] = all[i]
            /\ cursor.last = "None" => yielded = all

(***************************************************************************)
(* block.rs, object.rs, common.rs: the objects of a block and their walk.  *)
(***************************************************************************)
Descriptors == [unpacked_field_count : 0 .. MaxField, pointer_count : 0 .. MaxField]

\* ObjectDescriptor::total_size, in words
total_size(d) == 1 + d.unpacked_field_count + d.pointer_count

RECURSIVE WordsOf(_)
WordsOf(objs) ==
    IF objs = << >> THEN 0 ELSE total_size(Head(objs)) + WordsOf(Tail(objs))

\* the valid layouts: objects placed one after another within a block
Layouts ==
    {objs \in UNION {[1 .. n -> Descriptors] : n \in 0 .. MaxObjs} :
        WordsOf(objs) <= BlockWords}

\* the address of object i of the block
ObjAddr(b, i) == b.start + WordBytes * WordsOf(SubSeq(b.objs, 1, i - 1))

\* the objects of the block as views: start address and the two slice lengths
ObjectAt(b, i) ==
    [addr |-> ObjAddr(b, i),
     unpacked |-> b.objs[i].unpacked_field_count,
     pointers |-> b.objs[i].pointer_count]

ObjectsOf(b) == [i \in DOMAIN b.objs |-> ObjectAt(b, i)]

\* Address::offset: `count` bytes further
Address_offset(addr, count) == addr + count

\* assert_aligned::<T> for a word-aligned T
assert_aligned(addr) == IF addr % WordBytes = 0 THEN Ok(addr) ELSE Panic

\* the counts a stray descriptor pointer may lead to: the extremes of each
StrayDescriptors ==
    {d \in Descriptors : /\ d.unpacked_field_count \in {0, MaxField}
                         /\ d.pointer_count \in {0, MaxField}}

\* Object::from(address).  The descriptor pointer is read at `address` and
\* dereferenced.  Where the word there is no descriptor pointer (a field of
\* an object, or memory at or past `free`), the read is undefined: it faults
\* or yields whatever counts the stray pointer leads to.  Nothing writes the
\* memory, so a word read before reads the same again (b.stray).
Object_from(b, addr) ==
    IF assert_aligned(addr) = Panic THEN {Panic}
    ELSE IF \E i \in DOMAIN b.objs : ObjAddr(b, i) = addr
         THEN {Ok(ObjectAt(b, CHOOSE i \in DOMAIN b.objs : ObjAddr(b, i) = addr))}
         ELSE IF \E v \in b.stray : v.addr = addr
         THEN {Ok(v) : v \in {u \in b.stray : u.addr = addr}}
         ELSE {[tag |-> "Fault"]}
              \cup {Ok([addr |-> addr, unpacked |-> d.unpacked_field_count,
                        pointers |-> d.pointer_count]) : d \in StrayDescriptors}

\* the block once the word at view.addr has been read as `view`
Remembered(b, view) ==
    IF \E i \in DOMAIN b.objs : ObjAddr(b, i) = view.addr
    THEN b
    ELSE [b EXCEPT !.stray = @ \cup {view}]

\* Object::total_size of a view
Object_total_size(o) == 1 + o.unpacked + o.pointers

\* BlockDescriptor::new(start)
BlockDescriptor_new(start) ==
    [start |-> start, free |-> start, objs |-> << >>, stray |-> {}]

\* objects() resuming where the block's objects end
BlockDescriptor_objects_at_free(b) ==
    {[state |-> "active", current |-> [addr |-> b.free, unpacked |-> 0, pointers |-> 0],
      boundary |-> b.free, last |-> "fresh"]}

\* BlockDescriptor::objects: the iterators it may return
BlockDescriptor_objects(b) ==
    {IF o.tag = "Ok"
     THEN [state |-> "active", current |-> o.val, boundary |-> b.free, last |-> "fresh"]
     ELSE [state |-> "active", current |-> [addr |-> b.start, unpacked |-> 0, pointers |-> 0],
           boundary |-> b.free, last |-> o.tag]
     : o \in Object_from(b, b.start)}

\* ObjectIterator::next: [it |-> iterator after, ret |-> Some(object) | None | Panic | Fault]
ObjectIterator_next(b, it) ==
    LET this_addr == it.current.addr
        this_size == Object_total_size(it.current)
        next_addr == Address_offset(this_addr, this_size)
    IN  IF next_addr >= it.boundary
        THEN {[it |-> [it EXCEPT !.last = "None"], ret |-> [tag |-> "None"]]}
        ELSE {IF o.tag = "Ok"
              THEN [it |-> [it EXCEPT !.current = o.val, !.last = "Some"],
                    ret |-> [tag |-> "Some", item |-> it.current]]
              ELSE [it |-> [it EXCEPT !.last = o.tag], ret |-> o]
              : o \in Object_from(b, next_addr)}

InitBlock ==
    /\ backend = "unix"
    /\ overflowChecks = FALSE
    /\ mapped = {}
    /\ PAGE_SIZE = 0
    /\ call = NoCall
    /\ history = << >>
    /\ chunks = << >>
    /\ list = [head |-> 0, next |-> << >>]
    /\ cursor = [kind |-> "none"]
    /\ \E objs \in Layouts :
          block = [BlockDescriptor_new(BlockStart) EXCEPT
                      !.free = BlockStart + WordBytes * WordsOf(objs),
                      !.objs = objs]
    /\ objIter = [state |-> "none"]
    /\ yielded = << >>

\* block.objects()
Objects ==
    /\ objIter.state = "none"
    /\ Len(history) < MaxCalls
    /\ \E it \in BlockDescriptor_objects(block) :
          /\ objIter' = it
          /\ block' = IF it.last = "fresh" THEN Remembered(block, it.current) ELSE block
    /\ yielded' = << >>
    /\ UNCHANGED <<list, cursor>>
    /\ UNCHANGED allocVars

\* the addresses of a sequence of views
AddressesOf(views) == [i \in DOMAIN views |-> views[i].addr]

\* it.next(); a panic or a fault ends the walk.  `history` keeps the
\* addresses each walk yielded by the time its next() first returned None.
ObjectNext ==
    /\ objIter.state = "active"
    /\ objIter.last \in {"fresh", "Some", "None"}
    /\ \E r \in ObjectIterator_next(block, objIter) :
          /\ objIter' = r.it
          /\ yielded' = IF r.ret.tag = "Some" THEN Append(yielded, r.ret.item) ELSE yielded
          /\ block' = IF r.ret.tag = "Some" THEN Remembered(block, r.it.current) ELSE block
          /\ history' = IF r.ret.tag = "None" /\ objIter.last # "None"
                        THEN Append(history, AddressesOf(yielded))
                        ELSE history
    /\ UNCHANGED <<list, cursor>>
    /\ UNCHANGED <<backend, overflowChecks, mapped, PAGE_SIZE, call, chunks>>

\* the iterator goes out of scope
ObjectIterDrop ==
    /\ objIter.state = "active"
    /\ objIter.last \in {"fresh", "Some", "None"}
    /\ objIter' = [state |-> "none"]
    /\ yielded' = << >>
    /\ UNCHANGED <<list, cursor, block>>
    /\ UNCHANGED allocVars

NextBlock == Objects \/ ObjectNext \/ ObjectIterDrop

SpecBlock == InitBlock /\ [][NextBlock]_vars

\* C4: for a block of N validly laid-out objects, objects() neither panics
\* nor faults, what it has yielded is at any time a prefix of the N objects
\* in address order, and once next() has returned None it has yielded
\* exactly the N objects.
C4_WalkYieldsObjects ==
    objIter.state = "active" =>
        /\ objIter.last \in {"fresh", "Some", "None"}
        /\ Len(yielded) <= Len(block.objs)
        /\ \A i \in DOMAIN yielded : yielded[i] = ObjectAt(block, i)
        /\ objIter.last = "None" => yielded = ObjectsOf(block)

\* C12: BlockDescriptor::new(start) gives free == start, and for a block with
\* free == start objects() yields nothing: the iterator is built, yields no
\* object, and its first next() returns None.
C12_EmptyBlockYieldsNothing ==
    block.free = block.start =>
        /\ BlockDescriptor_new(block.start).free = block.free
        /\ objIter.state = "active" =>
              /\ objIter.last \in {"fresh", "None"}
              /\ yielded = << >>

\* an iterator as objects() has just returned it
FreshIterator ==
    /\ objIter.state = "active"
    /\ objIter.last = "fresh"

\* no step writes the descriptor or the block's memory: start, free and the
\* objects stay, and a word that was read keeps its content
BlockUntouched ==
    /\ block'.start = block.start
    /\ block'.free = block.free
    /\ block'.objs = block.objs
    /\ block.stray \subseteq block'.stray
    /\ \A u, v \in block'.stray : u.addr = v.addr => u = v

\* C13: objects() is restartable and read-only: every call returns a fresh
\* iterator positioned at start and bounded by free, no step of any iterator
\* changes the descriptor's start and free or the block's memory, and all
\* full iterations of the block yield the same sequence of addresses.
C13_RestartableReadOnly ==
    /\ [](FreshIterator =>
            /\ objIter.current.addr = block.start
            /\ objIter.boundary = block.free
            /\ yielded = << >>)
    /\ [](\A i, j \in DOMAIN history : history[i] = history[j])
    /\ [][BlockUntouched]_vars

\* a second full iteration has ended, having yielded objects
C13_Witness ==
    /\ Len(history) >= 2
    /\ history[2] # << >>
    /\ objIter.state = "active"
    /\ objIter.last = "None"

\* C20: each step of ObjectIterator advances from the current object's start
\* address by total_size() words, total_size() * size_of(usize) bytes: the
\* next object is reconstructed at the first byte after the current one, an
\* address that is word-aligned whenever the current one is.
C20_AdvancesByWords ==
    objIter.state = "active" =>
        /\ objIter.last # "Panic"
        /\ objIter.last = "Some" =>
              LET prev == yielded[Len(yielded)]
              IN  objIter.current.addr = prev.addr + WordBytes * Object_total_size(prev)

\* the addresses yielded so far lie in [start, free) and strictly increase
YieldedAscending ==
    /\ \A i \in DOMAIN yielded :
          block.start <= yielded[i].addr /\ yielded[i].addr < block.free
    /\ \A i, j \in DOMAIN yielded : i < j => yielded[i].addr < yielded[j].addr

\* C21: the walk of a block of validly laid-out objects terminates with None:
\* no next() panics or faults, at most free - start calls return an object,
\* every yielded object starts in [start, free) above the previous one, and
\* after next() has returned None every later next() returns None.
C21_WalkTerminates ==
    /\ [](objIter.state = "active" /\ block.objs # << >> =>
            /\ objIter.last \in {"fresh", "Some", "None"}
            /\ Len(yielded) <= block.free - block.start
            /\ YieldedAscending)
    /\ [][objIter.state = "active" /\ objIter.last = "None" /\ objIter'.state = "active"
            => objIter'.last = "None"]_vars

\* the addresses Object::from has read a descriptor word at: the one the
\* iterator's current object was reconstructed at, and those of the words
\* read where no object starts
ReadAddresses ==
    (IF objIter.state = "active" THEN {objIter.current.addr} ELSE {})
        \cup {v.addr : v \in block.stray}

\* C25: creating and driving an ObjectIterator reads a descriptor word only
\* at addresses a with start <= a < free; on a block with free == start no
\* memory is read at all.
C25_NoReadAtOrBeyondFree ==
    \A a \in ReadAddresses : block.start <= a /\ a < block.free

(***************************************************************************)
(* object.rs, common.rs: the view Object::from builds over the words of    *)
(* one object, and the alignment checks under it.  Here `block` also holds *)
(* the words of the object at `start`: words[1] is the descriptor the      *)
(* first word points to, the others are the field values.                  *)
(***************************************************************************)
\* the element types T: u8 and the word-sized ones (usize, references)
Byte == [size |-> 1, align |-> 1]
Word == [size |-> WordBytes, align |-> WordBytes]
ElementTypes == {Byte, Word}

\* what a field may hold
FieldValues == {0, 1}

\* a slice that advances the address by its length in elements, not in bytes
consume_as_slice_unscaled(addr, T, n) ==
    IF addr % T.align # 0 THEN [ret |-> Panic, mem |-> addr]
    ELSE [ret |-> Ok([ptr |-> addr, len |-> n]), mem |-> addr + n]

\* a cast that checks nothing
assert_aligned_unchecked(addr, T) == Ok(addr)

\* assert_aligned::<T>(mem)
assert_aligned_as(addr, T) == IF addr % T.align = 0 THEN Ok(addr) ELSE Panic

\* Address::as_ptr::<T>
Address_as_ptr(addr, T) == assert_aligned_as(addr, T)

\* consume_as_slice::<T>(mem, n): [ret |-> the slice or a panic, mem |-> the address after]
consume_as_slice(addr, T, n) ==
    LET res == Address_as_ptr(addr, T)
    IN  IF res = Panic THEN [ret |-> Panic, mem |-> addr]
        ELSE [ret |-> Ok([ptr |-> res.val, len |-> n]),
              mem |-> Address_offset(addr, T.size * n)]

\* consume_as_ref::<T>(mem)
consume_as_ref(addr, T) ==
    LET res == Address_as_ptr(addr, T)
    IN  IF res = Panic THEN [ret |-> Panic, mem |-> addr]
        ELSE [ret |-> Ok(res.val), mem |-> Address_offset(addr, T.size)]

\* the word of the block at byte address addr
WordAt(b, addr) == b.words[(addr - b.start) \div WordBytes + 1]

\* the elements of a slice of words
Load(b, slice) == [i \in 1 .. slice.len |-> WordAt(b, slice.ptr + (i - 1) * WordBytes)]

\* Object::from(address) on the object of the block: the three parts of the
\* view and the address after them
Object_from_words(b, address) ==
    LET r1 == consume_as_ref(address, Word)
    IN  IF r1.ret = Panic THEN Panic
        ELSE
          LET descriptor == WordAt(b, r1.ret.val)
              r2 == consume_as_slice(r1.mem, Word, descriptor.unpacked_field_count)
              r3 == consume_as_slice(r2.mem, Word, descriptor.pointer_count)
          IN  IF r2.ret = Panic \/ r3.ret = Panic THEN Panic
              ELSE Ok([descriptor |-> r1.ret.val, unpacked |-> r2.ret.val,
                       pointers |-> r3.ret.val, after |-> r3.mem])

\* Object::start_address
Object_start_address(view) == view.descriptor

\* the contents an object with descriptor d may have
ObjectWords(d) ==
    {<<d>> \o f : f \in [1 .. (d.unpacked_field_count + d.pointer_count) -> FieldValues]}

\* the addresses handed to the functions: aligned and not
ProbeAddresses == BlockStart .. (BlockStart + 2 * WordBytes)

InitObject ==
    /\ backend = "unix"
    /\ overflowChecks = FALSE
    /\ mapped = {}
    /\ PAGE_SIZE = 0
    /\ call = NoCall
    /\ history = << >>
    /\ chunks = << >>
    /\ list = [head |-> 0, next |-> << >>]
    /\ cursor = [kind |-> "none"]
    /\ \E d \in Descriptors : \E w \in ObjectWords(d) :
          block = [start |-> BlockStart, free |-> BlockStart + WordBytes * total_size(d),
                   objs |-> <<d>>, stray |-> {}, words |-> w]
    /\ objIter = [state |-> "none"]
    /\ yielded = << >>

ObjectFrom ==
    /\ call = NoCall
    /\ \E a \in {block.start, block.start + 1} :
          call' = [op |-> "Object::from", args |-> [address |-> a],
                   ret |-> Object_from_words(block, a)]
    /\ UNCHANGED walkVars
    /\ UNCHANGED <<backend, overflowChecks, mapped, PAGE_SIZE, history, chunks>>

AsPtr ==
    /\ call = NoCall
    /\ \E a \in ProbeAddresses, T \in ElementTypes :
          call' = [op |-> "as_ptr", args |-> [address |-> a, T |-> T],
                   ret |-> Address_as_ptr(a, T), mem |-> a]
    /\ UNCHANGED walkVars
    /\ UNCHANGED <<backend, overflowChecks, mapped, PAGE_SIZE, history, chunks>>

AssertAligned ==
    /\ call = NoCall
    /\ \E a \in ProbeAddresses, T \in ElementTypes :
          call' = [op |-> "assert_aligned", args |-> [address |-> a, T |-> T],
                   ret |-> assert_aligned_as(a, T), mem |-> a]
    /\ UNCHANGED walkVars
    /\ UNCHANGED <<backend, overflowChecks, mapped, PAGE_SIZE, history, chunks>>

ConsumeAsRef ==
    /\ call = NoCall
    /\ \E a \in ProbeAddresses, T \in ElementTypes :
          LET r == consume_as_ref(a, T)
          IN  call' = [op |-> "consume_as_ref", args |-> [address |-> a, T |-> T],
                       ret |-> r.ret, mem |-> r.mem]
    /\ UNCHANGED walkVars
    /\ UNCHANGED <<backend, overflowChecks, mapped, PAGE_SIZE, history, chunks>>

ConsumeAsSlice ==
    /\ call = NoCall
    /\ \E a \in ProbeAddresses, T \in ElementTypes, n \in 0 .. MaxField :
          LET r == consume_as_slice(a, T, n)
          IN  call' = [op |-> "consume_as_slice", args |-> [address |-> a, T |-> T, n |-> n],
                       ret |-> r.ret, mem |-> r.mem]
    /\ UNCHANGED walkVars
    /\ UNCHANGED <<backend, overflowChecks, mapped, PAGE_SIZE, history, chunks>>

NextObject ==
    ObjectFrom \/ AsPtr \/ AssertAligned \/ ConsumeAsRef \/ ConsumeAsSlice \/ Resume

SpecObject == InitObject /\ [][NextObject]_vars

\* C14: Object::from(a) on a word-aligned address a lays the view out in
\* fixed order with no gaps: the descriptor slot is the word at a, `unpacked`
\* is the unpacked_field_count words from one word after a, `pointers` the
\* pointer_count words right after them; the words consumed are total_size(),
\* start_address() is a, and the two slices read the values stored there.
C14_ObjectViewLayout ==
    (call.op = "Object::from" /\ call.args.address % WordBytes = 0) =>
        LET a == call.args.address
            d == block.objs[1]
            v == call.ret.val
        IN  /\ call.ret.tag = "Ok"
            /\ v.descriptor = a
            /\ WordAt(block, v.descriptor) = d
            /\ v.unpacked = [ptr |-> a + WordBytes, len |-> d.unpacked_field_count]
            /\ v.pointers = [ptr |-> a + WordBytes * (1 + d.unpacked_field_count),
                             len |-> d.pointer_count]
            /\ v.after = a + WordBytes * total_size(d)
            /\ Object_start_address(v) = a
            /\ Load(block, v.unpacked) = SubSeq(block.words, 2, 1 + d.unpacked_field_count)
            /\ Load(block, v.pointers) =
                  SubSeq(block.words, 2 + d.unpacked_field_count, total_size(d))

\* a view over an object with both kinds of fields, a pointer field set
C14_Witness ==
    /\ call.op = "Object::from"
    /\ call.ret.tag = "Ok"
    /\ call.ret.val.unpacked.len > 0
    /\ call.ret.val.pointers.len > 0
    /\ \E i \in 1 .. call.ret.val.pointers.len : Load(block, call.ret.val.pointers)[i] = 1

\* the address of the last call is not aligned for its element type
Misaligned ==
    /\ call.op \in {"as_ptr", "assert_aligned", "consume_as_ref", "consume_as_slice"}
    /\ call.args.address % call.args.T.align # 0

\* C15: as_ptr::<T>() and assert_aligned::<T>() panic exactly when the
\* address mod align_of(T) is non-zero and otherwise return the same address;
\* consume_as_ref and consume_as_slice panic on a misaligned address and
\* leave it as it was.
C15_MisalignedPanics ==
    /\ call.op \in {"as_ptr", "assert_aligned"} =>
          call.ret = IF Misaligned THEN Panic ELSE Ok(call.args.address)
    /\ call.op \in {"consume_as_ref", "consume_as_slice"} =>
          /\ Misaligned => (call.ret = Panic /\ call.mem = call.args.address)
          /\ ~Misaligned => call.ret.tag = "Ok"

\* a slice was asked for at an address not aligned for words
C15_Witness ==
    /\ Misaligned
    /\ call.op = "consume_as_slice"
    /\ call.args.T = Word
    /\ call.args.n > 0
    /\ call.ret = Panic

(***************************************************************************)
(* allocate.rs and memory/allocate.rs: a MemoryChunk seen as a slice of T. *)
(***************************************************************************)
\* allocate.rs, AsRef<[T]>::as_ref and AsMut<[T]>::as_mut:
\* slice_from_raw_parts(self.data as _, self.size).as_ref().unwrap().
\* Nothing checks the alignment; a reference to a misaligned address is
\* undefined: the slice is returned as it is, or a checked build stops.
MemoryChunk_as_ref(chunk, T) ==
    IF chunk.data % T.align = 0
    THEN {Ok([ptr |-> chunk.data, len |-> chunk.size])}
    ELSE {Ok([ptr |-> chunk.data, len |-> chunk.size]), Panic}

\* memory/allocate.rs, as_ref and as_mut: the same behind utils::assert_aligned
MemoryChunk_as_ref_asserted(chunk, T) ==
    IF assert_aligned_as(chunk.data, T) = Panic THEN {Panic}
    ELSE {Ok([ptr |-> chunk.data, len |-> chunk.size])}

\* one chunk, as MemoryChunk::new returns it in a fresh process
InitSlice ==
    /\ backend = "unix"
    /\ overflowChecks \in BOOLEAN
    /\ PAGE_SIZE = 0
    /\ call = NoCall
    /\ history = << >>
    /\ NoWalk
    /\ \E alignment \in Alignments, size \in Sizes :
       \E o \in MemoryChunk_new(World({}, 0), alignment, size, {"Read", "Write"}, overflowChecks) :
          /\ o.ret.tag = "Ok"
          /\ mapped = o.w.mapped
          /\ chunks = <<[data |-> o.ret.val.data, size |-> o.ret.val.size,
                         state |-> "live", frees |-> 0]>>

\* chunk.as_ref() / chunk.as_mut() of allocate.rs
AsSlice ==
    /\ call = NoCall
    /\ \E T \in ElementTypes, op \in {"as_ref", "as_mut"} :
       \E r \in MemoryChunk_as_ref(chunks[1], T) :
          call' = [op |-> op, args |-> [data |-> chunks[1].data, T |-> T], ret |-> r]
    /\ UNCHANGED walkVars
    /\ UNCHANGED <<backend, overflowChecks, mapped, PAGE_SIZE, history, chunks>>

\* chunk.as_ref() / chunk.as_mut() of memory/allocate.rs
AsSliceAsserted ==
    /\ call = NoCall
    /\ \E T \in ElementTypes, op \in {"memory::as_ref", "memory::as_mut"} :
       \E r \in MemoryChunk_as_ref_asserted(chunks[1], T) :
          call' = [op |-> op, args |-> [data |-> chunks[1].data, T |-> T], ret |-> r]
    /\ UNCHANGED walkVars
    /\ UNCHANGED <<backend, overflowChecks, mapped, PAGE_SIZE, history, chunks>>

NextSlice == AsSlice \/ AsSliceAsserted \/ Resume

SpecSlice == InitSlice /\ [][NextSlice]_vars

\* C16: seeing a MemoryChunk as a slice of T panics whenever the chunk's base
\* address is not a multiple of align_of(T), and never returns a slice at a
\* misaligned address.
C16_MisalignedSlicePanics ==
    (/\ call.op \in {"as_ref", "as_mut", "memory::as_ref", "memory::as_mut"}
     /\ call.args.data % call.args.T.align # 0) => call.ret = Panic

\* C23: the slice as_ref::<T>() / as_mut::<T>() returns never extends past the
\* chunk: it starts at the chunk's base and its n elements satisfy
\* n * size_of(T) <= chunk.size(), so all its bytes lie in [base, base + size).
C23_SliceWithinChunk ==
    (/\ call.op \in {"as_ref", "as_mut", "memory::as_ref", "memory::as_mut"}
     /\ call.ret.tag = "Ok") =>
        /\ call.ret.val.ptr = chunks[1].data
        /\ call.ret.val.len * call.args.T.size <= chunks[1].size
        /\ Bytes(call.ret.val.ptr, call.ret.val.len * call.args.T.size)
              \subseteq Bytes(chunks[1].data, chunks[1].size)

(***************************************************************************)
(* primitives/unix.rs: is_power_of_2 over every machine word, built with   *)
(* and without overflow checks.                                            *)
(***************************************************************************)
Words == 0 .. (WordMod - 1)

InitPow ==
    /\ backend = "unix"
    /\ overflowChecks \in BOOLEAN
    /\ mapped = {}
    /\ PAGE_SIZE = 0
    /\ call = NoCall
    /\ history = << >>
    /\ chunks = << >>
    /\ NoWalk

IsPowerOf2 ==
    /\ call = NoCall
    /\ \E x \in Words :
          call' = [op |-> "is_power_of_2", args |-> [x |-> x],
                   ret |-> is_power_of_2(x, overflowChecks)]
    /\ UNCHANGED walkVars
    /\ UNCHANGED <<backend, overflowChecks, mapped, PAGE_SIZE, history, chunks>>

NextPow == IsPowerOf2 \/ Resume

SpecPow == InitPow /\ [][NextPow]_vars

\* C11: is_power_of_2(x) returns true exactly when x = 2^k for some k >= 0,
\* for every machine word x; for 0 it returns false, without a panic and
\* without wrapping.
C11_PowerOfTwoExact ==
    call.op = "is_power_of_2" =>
        call.ret = Ok(\E k \in 0 .. (WordBits - 1) : call.args.x = 2 ^ k)

(***************************************************************************)
(* primitives/windows.rs: Protection and make_protection_flag.             *)
(***************************************************************************)
\* the page protection constants
PAGE_NOACCESS == 1
PAGE_READ == 2
PAGE_READWRITE == 4
PAGE_EXECUTE == 16
PAGE_EXECUTE_READ == 32
PAGE_EXECUTE_READWRITE == 64

\* enum Protection and the discriminant of each variant
Protection == {"Read", "Write", "Exec"}
Discriminant(f) == CASE f = "Read" -> 1 [] f = "Write" -> 2 [] f = "Exec" -> 4

\* a | b on flag bits that are disjoint or equal
RECURSIVE BitOr(_, _)
BitOr(a, b) ==
    IF a = 0 THEN b
    ELSE IF b = 0 THEN a
    ELSE (IF a % 2 = 1 \/ b % 2 = 1 THEN 1 ELSE 0) + 2 * BitOr(a \div 2, b \div 2)

\* the BitFlags value of a set of variants: Protection::NONE is 0, the others
\* are the variants joined with |
RECURSIVE BitFlags(_)
BitFlags(S) ==
    IF S = {} THEN 0
    ELSE LET f == CHOOSE g \in S : TRUE
         IN  BitOr(Discriminant(f), BitFlags(S \ {f}))

\* BitFlags::contains
contains(bits, f) == BitAnd(bits, Discriminant(f)) = Discriminant(f)

\* rw << n on a ULONG
Shl(x, n) == (x * 2 ^ n) % CodeMod

\* make_protection_flag with Exec ignored
make_protection_flag_noexec(protection) ==
    IF contains(protection, "Write") THEN PAGE_READWRITE
    ELSE IF contains(protection, "Read") THEN PAGE_READ
    ELSE PAGE_NOACCESS

\* make_protection_flag
make_protection_flag(protection) ==
    LET rw == IF contains(protection, "Write") THEN PAGE_READWRITE
              ELSE IF contains(protection, "Read") THEN PAGE_READ
              ELSE PAGE_NOACCESS
    IN  IF contains(protection, "Exec") THEN Shl(rw, 4) ELSE rw

InitProt ==
    /\ backend = "windows"
    /\ overflowChecks = FALSE
    /\ mapped = {}
    /\ PAGE_SIZE = 0
    /\ call = NoCall
    /\ history = << >>
    /\ chunks = << >>
    /\ NoWalk

\* make_protection_flag(p) for a set of variants p; `history` keeps each
\* call's argument and result
MakeProtectionFlag ==
    /\ Len(history) < MaxCalls
    /\ \E S \in SUBSET Protection :
          history' = Append(history, [protection |-> S,
                                      flag |-> make_protection_flag(BitFlags(S))])
    /\ UNCHANGED walkVars
    /\ UNCHANGED <<backend, overflowChecks, mapped, PAGE_SIZE, call, chunks>>

NextProt == MakeProtectionFlag

SpecProt == InitProt /\ [][NextProt]_vars

\* C22: make_protection_flag maps each of the 8 subsets of {Read, Write,
\* Exec} to one page constant: {} to PAGE_NOACCESS, {Read} to PAGE_READ, a
\* set with Write and without Exec to PAGE_READWRITE, {Exec} to
\* PAGE_EXECUTE, {Read, Exec} to PAGE_EXECUTE_READ, and a set with Write and
\* Exec to PAGE_EXECUTE_READWRITE.
C22_ProtectionTable ==
    \A i \in DOMAIN history :
        LET S == history[i].protection
            flag == history[i].flag
        IN  /\ S = {} => flag = PAGE_NOACCESS
            /\ S = {"Read"} => flag = PAGE_READ
            /\ "Write" \in S /\ "Exec" \notin S => flag = PAGE_READWRITE
            /\ S = {"Exec"} => flag = PAGE_EXECUTE
            /\ S = {"Read", "Exec"} => flag = PAGE_EXECUTE_READ
            /\ "Write" \in S /\ "Exec" \in S => flag = PAGE_EXECUTE_READWRITE

\* the calls so far have asked for {Exec}, for {Write, Exec} and for {Write}
C22_Witness ==
    /\ \E i \in DOMAIN history : history[i].protection = {"Exec"}
    /\ \E i \in DOMAIN history : history[i].protection = {"Write", "Exec"}
    /\ \E i \in DOMAIN history : history[i].protection = {"Write"}

====
